---- MODULE Spec2Model ----
(***************************************************************************)
(* Model of the OpenAI-compatible proxy poe_server (Deno).  One request is *)
(* followed from its arrival at handle() to its response; the actions are  *)
(* the segments of handle() between two awaits.  Strings whose characters  *)
(* the code inspects (the Authorization header, the upstream content) are  *)
(* sequences of one-character strings; bodies are sequences of bytes.      *)
(***************************************************************************)
EXTENDS Integers, Sequences, FiniteSets, TLC

VARIABLES
  modelMapping,         \* let modelMapping: the object's entries, in insertion order
  reverseModelMapping,  \* let reverseModelMapping: likewise
  pc,                   \* position of the program / of handle()
  req,                  \* the inbound Request being handled
  token,                \* handle()'s local `token`
  upstreamReqs,         \* the fetch() calls issued for the inbound request
  upstreamResp,         \* the Response fetch() resolved with
  upArrived,            \* number of chunks of the upstream body that have arrived
  upRead,               \* number of chunks the reader has consumed
  upEnd,                \* "open", "eof" (end-of-data signalled) or "error"
  response,             \* the Response handle() resolved with
  threw,                \* TRUE when handle()'s promise rejected
  streamState,          \* the client-facing ReadableStream: none/readable/closed/errored
  delivered             \* chunks enqueued on the client-facing stream

vars == <<modelMapping, reverseModelMapping, pc, req, token, upstreamReqs,
          upstreamResp, upArrived, upRead, upEnd, response, threw,
          streamState, delivered>>

----------------------------------------------------------------------------
(* Bounds *)

MaxChunks == 2   \* chunks in an upstream body
MaxPieces == 3   \* pieces concatenated into an upstream content text

----------------------------------------------------------------------------
(* Generic helpers *)

Range(s) == {s[i] : i \in 1..Len(s)}

SeqsUpTo(S, n) == UNION {[1..k -> S] : k \in 0..n}

RECURSIVE Flatten(_)
Flatten(ss) == IF ss = <<>> THEN <<>> ELSE Head(ss) \o Flatten(Tail(ss))

Min(S) == CHOOSE x \in S : \A y \in S : x <= y

\* JavaScript's undefined / an absent JSON field
Undefined == "<undefined>"

\* Object.prototype.constructor, the function every plain object inherits
FnObject == "<function Object>"

\* value || fallback, for the falsy values the model has (undefined, "")
OrElse(value, fallback) == IF value \in {Undefined, ""} THEN fallback ELSE value

\* JSON.stringify drops a property whose value is undefined or a function
Stringify(value) == IF value \in {Undefined, FnObject} THEN Undefined ELSE value

----------------------------------------------------------------------------
(* Plain objects: a sequence of <<key, value>> entries with distinct keys,  *)
(* in insertion order, on top of Object.prototype.                          *)

ObjectPrototype == [n \in {"constructor"} |-> FnObject]

Keys(obj) == [i \in 1..Len(obj) |-> obj[i][1]]

HasOwn(obj, name) == \E i \in 1..Len(obj) : obj[i][1] = name

\* obj[name]
Get(obj, name) ==
  IF HasOwn(obj, name)
    THEN obj[CHOOSE i \in 1..Len(obj) : obj[i][1] = name][2]
  ELSE IF name \in DOMAIN ObjectPrototype THEN ObjectPrototype[name]
  ELSE Undefined

\* obj[name] = value
Put(obj, name, value) ==
  IF HasOwn(obj, name)
    THEN [i \in 1..Len(obj) |-> IF obj[i][1] = name THEN <<name, value>> ELSE obj[i]]
    ELSE Append(obj, <<name, value>>)

\* if (value) ...
Truthy(value) == value \notin {Undefined, ""}

----------------------------------------------------------------------------
(* models.json and loadModelMapping *)

FileKeys == {"gpt-4", "dall-e-3"}
FileValues == {"Bot-A", ""}

\* an object literal of string values, as JSON.parse yields it
FileObjects ==
  {es \in SeqsUpTo(FileKeys \X FileValues, Cardinality(FileKeys)) :
     \A i, j \in 1..Len(es) : es[i][1] = es[j][1] => i = j}

ModelFiles ==
  {[state |-> "missing", entries |-> <<>>], [state |-> "malformed", entries |-> <<>>]}
  \cup {[state |-> "ok", entries |-> es] : es \in FileObjects}

\* for (const [key, value] of Object.entries(modelMapping)) reverse[value] = key
RECURSIVE Invert(_, _)
Invert(entries, acc) ==
  IF entries = <<>> THEN acc
  ELSE Invert(Tail(entries), Put(acc, Head(entries)[2], Head(entries)[1]))

\* what loadModelMapping leaves in modelMapping
LoadedMapping(file) == IF file.state = "ok" THEN file.entries ELSE <<>>

\* what loadModelMapping leaves in reverseModelMapping
LoadedReverse(file) == IF file.state = "ok" THEN Invert(file.entries, <<>>) ELSE <<>>

\* function mapModelName(inputModel)
mapModelName(inputModel) ==
  IF Truthy(Get(modelMapping, inputModel)) THEN Get(modelMapping, inputModel)
  ELSE IF Truthy(Get(reverseModelMapping, inputModel)) THEN inputModel
  ELSE inputModel

----------------------------------------------------------------------------
(* Character strings *)

HTTPS == <<"h", "t", "t", "p", "s", ":", "/", "/">>
BEARER == <<"B", "e", "a", "r", "e", "r", " ">>

\* s.startsWith(prefix)
StartsWith(s, prefix) ==
  Len(s) >= Len(prefix) /\ SubSeq(s, 1, Len(prefix)) = prefix

\* prefix occurs in s at index i
At(s, i, prefix) ==
  i >= 1 /\ i + Len(prefix) - 1 <= Len(s) /\ SubSeq(s, i, i + Len(prefix) - 1) = prefix

\* the regular expression class \s
IsSpace(c) == c \in {" ", "\t", "\n", "\r"}

RECURSIVE TrimLeft(_)
TrimLeft(s) == IF s # <<>> /\ IsSpace(Head(s)) THEN TrimLeft(Tail(s)) ELSE s

RECURSIVE TrimRight(_)
TrimRight(s) ==
  IF s # <<>> /\ IsSpace(s[Len(s)]) THEN TrimRight(SubSeq(s, 1, Len(s) - 1)) ELSE s

\* s.trim()
Trim(s) == TrimRight(TrimLeft(s))

\* s.slice(n)
Slice(s, n) == SubSeq(s, n + 1, Len(s))

----------------------------------------------------------------------------
(* Body.text() and new Response(text): UTF-8 decode, then UTF-8 encode *)

Replacement == 65533   \* U+FFFD
ByteOrderMark == 65279 \* U+FEFF

\* the UTF-8 decoder's loop: cp, needed, seen, lower, upper are its state
RECURSIVE Utf8Run(_, _, _, _, _, _, _)
Utf8Run(bytes, i, cp, needed, seen, lower, upper) ==
  IF i > Len(bytes) THEN (IF needed # 0 THEN <<Replacement>> ELSE <<>>)
  ELSE LET b == bytes[i] IN
    IF needed = 0 THEN
      IF b <= 127 THEN <<b>> \o Utf8Run(bytes, i + 1, 0, 0, 0, 128, 191)
      ELSE IF b >= 194 /\ b <= 223
        THEN Utf8Run(bytes, i + 1, b % 32, 1, 0, 128, 191)
      ELSE IF b >= 224 /\ b <= 239
        THEN Utf8Run(bytes, i + 1, b % 16, 2, 0,
                     IF b = 224 THEN 160 ELSE 128, IF b = 237 THEN 159 ELSE 191)
      ELSE IF b >= 240 /\ b <= 244
        THEN Utf8Run(bytes, i + 1, b % 8, 3, 0,
                     IF b = 240 THEN 144 ELSE 128, IF b = 244 THEN 143 ELSE 191)
      ELSE <<Replacement>> \o Utf8Run(bytes, i + 1, 0, 0, 0, 128, 191)
    ELSE IF b < lower \/ b > upper
      THEN <<Replacement>> \o Utf8Run(bytes, i, 0, 0, 0, 128, 191)
    ELSE IF seen + 1 = needed
      THEN <<cp * 64 + (b % 64)>> \o Utf8Run(bytes, i + 1, 0, 0, 0, 128, 191)
    ELSE Utf8Run(bytes, i + 1, cp * 64 + (b % 64), needed, seen + 1, 128, 191)

\* UTF-8 decode: the code points of the bytes, a leading byte order mark dropped
Utf8Decode(bytes) ==
  LET cps == Utf8Run(bytes, 1, 0, 0, 0, 128, 191)
  IN IF cps # <<>> /\ Head(cps) = ByteOrderMark THEN Tail(cps) ELSE cps

Utf8EncodeOne(c) ==
  IF c < 128 THEN <<c>>
  ELSE IF c < 2048 THEN <<192 + (c \div 64), 128 + (c % 64)>>
  ELSE IF c < 65536
    THEN <<224 + (c \div 4096), 128 + ((c \div 64) % 64), 128 + (c % 64)>>
  ELSE <<240 + (c \div 262144), 128 + ((c \div 4096) % 64),
         128 + ((c \div 64) % 64), 128 + (c % 64)>>

\* UTF-8 encode
Utf8Encode(cps) == Flatten([i \in 1..Len(cps) |-> Utf8EncodeOne(cps[i])])

\* the bytes of new Response(await upstreamResp.text())
ReencodedText(bytes) == Utf8Encode(Utf8Decode(bytes))

----------------------------------------------------------------------------
(* convertDallE3Response: the two regular expressions and the choice of URL *)

\* the class [^\s\)]
IsUrlChar(c) == ~IsSpace(c) /\ c # ")"

\* the last index of the run of characters satisfying the class that starts at i
RECURSIVE UrlRunEnd(_, _)
UrlRunEnd(s, i) ==
  IF i + 1 <= Len(s) /\ IsUrlChar(s[i + 1]) THEN UrlRunEnd(s, i + 1) ELSE i

\* content.match(/https:\/\/[^\s\)]+/g), scanning from index i: each match is
\* greedy and the scan resumes after it
RECURSIVE UrlMatchesFrom(_, _)
UrlMatchesFrom(s, i) ==
  IF i > Len(s) THEN <<>>
  ELSE IF At(s, i, HTTPS) /\ i + 8 <= Len(s) /\ IsUrlChar(s[i + 8])
    THEN LET e == UrlRunEnd(s, i + 8)
         IN <<SubSeq(s, i, e)>> \o UrlMatchesFrom(s, e + 1)
  ELSE UrlMatchesFrom(s, i + 1)

urlMatches(content) == UrlMatchesFrom(content, 1)

\* the index of the first ")" at or after i, 0 when there is none
RECURSIVE NextParen(_, _)
NextParen(s, i) ==
  IF i > Len(s) THEN 0 ELSE IF s[i] = ")" THEN i ELSE NextParen(s, i + 1)

\* /!\[.*?\]\((https:\/\/[^\)]+)\)/ matches with "![" at b and "](" at k
TagAt(s, b, k) ==
  /\ At(s, b, <<"!", "[">>)
  /\ k >= b + 2
  /\ \A j \in (b + 2)..(k - 1) : s[j] \notin {"\n", "\r"}
  /\ At(s, k, <<"]", "(">>)
  /\ At(s, k + 2, HTTPS)
  /\ NextParen(s, k + 10) > k + 10

\* the <<b, k>> the regular expression engine finds first: leftmost b, then
\* the shortest .*?
TagStarts(s) == {b \in 1..Len(s) : \E k \in 1..Len(s) : TagAt(s, b, k)}

\* content.match(/!\[.*?\]\((https:\/\/[^\)]+)\)/): <<>> for null, else <<group 1>>
markdownMatch(content) ==
  IF TagStarts(content) = {} THEN <<>>
  ELSE LET b == Min(TagStarts(content))
           k == Min({x \in 1..Len(content) : TagAt(content, b, x)})
       IN <<SubSeq(content, k + 2, NextParen(content, k + 10) - 1)>>

\* the imageUrl convertDallE3Response puts in data[0].url
imageUrl(content) ==
  LET m == urlMatches(content)
      viaUrl == IF Len(m) > 0 THEN m[Len(m)] ELSE <<>>
  IN IF viaUrl # <<>> THEN viaUrl
     ELSE IF markdownMatch(content) # <<>> THEN markdownMatch(content)[1]
     ELSE <<>>

----------------------------------------------------------------------------
(* Requests, upstream responses, responses *)

UPSTREAM_API == "https://api.poe.com/v1/chat/completions"

ChatPath == "/v1/chat/completions"
ImagesPath == "/v1/images/generations"
ModelsPath == "/v1/models"

NoAuth == [present |-> FALSE, value |-> <<>>]
Auth(chars) == [present |-> TRUE, value |-> chars]

\* Authorization header values: absent, another scheme, the scheme in lower
\* case, and a bearer token
Auths ==
  {NoAuth,
   Auth(<<"B", "a", "s", "i", "c", " ", "k">>),
   Auth(<<"b", "e", "a", "r", "e", "r", " ", "k">>),
   Auth(BEARER \o <<"k">>)}

\* the header is present, whatever its scheme
HasAuthorization(auth) == auth.present

\* auth && auth.startsWith("Bearer ")
HasBearer(auth) == auth.present /\ auth.value # <<>> /\ StartsWith(auth.value, BEARER)

ChatModels == {Undefined, "gpt-4", "Bot-A", "constructor", "other"}
ImageModels == {Undefined, "dall-e-3", "Bot-A", "other"}
StreamValues == {Undefined, "false", "true"}
Sizes == {Undefined, "1024x1024", "512x512"}

Request(method, path, auth, bodyOk, model, stream, size) ==
  [method |-> method, path |-> path, auth |-> auth, bodyOk |-> bodyOk,
   model |-> model, stream |-> stream, size |-> size]

NoRequest == Request("", "", NoAuth, FALSE, Undefined, Undefined, Undefined)

\* the body of a request is read only once the bearer token is there, and its
\* fields only when it parses
Requests ==
  {Request("POST", p, a, FALSE, Undefined, Undefined, Undefined) :
     p \in {ChatPath, ImagesPath}, a \in Auths}
  \cup {Request("POST", ChatPath, Auth(BEARER \o <<"k">>), TRUE, m, st, Undefined) :
          m \in ChatModels, st \in StreamValues}
  \cup {Request("POST", ImagesPath, Auth(BEARER \o <<"k">>), TRUE, m, Undefined, sz) :
          m \in ImageModels, sz \in Sizes}
  \cup {Request("GET", ModelsPath, NoAuth, FALSE, Undefined, Undefined, Undefined),
        Request("GET", "/", NoAuth, FALSE, Undefined, Undefined, Undefined),
        Request("GET", ChatPath, NoAuth, FALSE, Undefined, Undefined, Undefined),
        Request("OPTIONS", ImagesPath, NoAuth, FALSE, Undefined, Undefined, Undefined),
        Request("POST", ModelsPath, NoAuth, FALSE, Undefined, Undefined, Undefined)}

\* chunks of an upstream body: "{}", a byte order mark, a byte that is not UTF-8
Chunks == {<<123, 125>>, <<239, 187, 191>>, <<255>>}

\* pieces of an upstream content text: a Markdown image tag, a bare URL, a
\* blank, and a tag whose URL holds a blank
Pieces ==
  {<<"!", "[", "a", "]", "(">> \o HTTPS \o <<"x", ")">>,
   HTTPS \o <<"y">>,
   <<" ">>,
   <<"!", "[", "b", "]", "(">> \o HTTPS \o <<" ", "z", ")">>}

Contents == {Flatten(ps) : ps \in SeqsUpTo(Pieces, MaxPieces)}

\* what upstreamResp.json() yields: a SyntaxError, or a document whose
\* choices[0].message.content is `content`
NoJson == [ok |-> FALSE, content |-> <<>>]
Json(content) == [ok |-> TRUE, content |-> content]

\* A response of the upstream: its status, the chunks its body arrives in and
\* the value its text parses to.  The bytes of a JSON document are not
\* modelled: a response given with a document has no chunks.
Upstream(status, chunks, json) == [status |-> status, chunks |-> chunks, json |-> json]

NoUpstream == Upstream(0, <<>>, NoJson)

\* statuses whose response has a null body
NullBodyStatus(status) == status \in {101, 204, 205, 304}

\* upstreamResp.ok
Ok(status) == status >= 200 /\ status <= 299

UpstreamStatuses == {200, 204, 401, 500}

ChatUpstreams ==
  {Upstream(st, cs, NoJson) :
     st \in {x \in UpstreamStatuses : ~NullBodyStatus(x)}, cs \in SeqsUpTo(Chunks, MaxChunks)}
  \cup {Upstream(st, <<>>, NoJson) : st \in {x \in UpstreamStatuses : NullBodyStatus(x)}}

ImageUpstreams ==
  {Upstream(st, cs, NoJson) :
     st \in {x \in UpstreamStatuses : ~Ok(x)}, cs \in SeqsUpTo(Chunks, MaxChunks)}
  \cup {Upstream(st, <<>>, NoJson) : st \in {x \in UpstreamStatuses : Ok(x)}}
  \cup {Upstream(st, <<>>, Json(c)) :
          st \in {x \in UpstreamStatuses : Ok(x) /\ ~NullBodyStatus(x)}, c \in Contents}

JsonHeaders == [h \in {"content-type"} |-> "application/json"]
JsonCorsHeaders ==
  [h \in {"content-type", "access-control-allow-origin"} |->
     IF h = "content-type" THEN "application/json" ELSE "*"]
SseHeaders ==
  [h \in {"content-type", "cache-control", "connection", "access-control-allow-origin"} |->
     CASE h = "content-type" -> "text/event-stream; charset=utf-8"
       [] h = "cache-control" -> "no-cache"
       [] h = "connection" -> "keep-alive"
       [] OTHER -> "*"]
NoHeaders == [h \in {} |-> ""]

\* a body: JSON with error.message / error.type, the text of an upstream
\* body, an images payload, a model list, the informational object, a stream
Body(kind, message, type, bytes, url, ids) ==
  [kind |-> kind, message |-> message, type |-> type, bytes |-> bytes,
   url |-> url, ids |-> ids]

ErrorBody(message) == Body("error", message, Undefined, <<>>, <<>>, <<>>)
TextBody(bytes) == Body("text", "", Undefined, bytes, <<>>, <<>>)
ImageBody(url) == Body("image", "", Undefined, <<>>, url, <<>>)
ModelsBody(ids) == Body("models", "", Undefined, <<>>, <<>>, ids)
InfoBody == Body("info", "OK, POST /v1/chat/completions, POST /v1/images/generations",
                 Undefined, <<>>, <<>>, <<>>)
StreamBody == Body("stream", "", Undefined, <<>>, <<>>, <<>>)

Response(status, headers, body) == [status |-> status, headers |-> headers, body |-> body]

NoResponse == Response(0, NoHeaders, Body("none", "", Undefined, <<>>, <<>>, <<>>))

\* an outbound fetch(UPSTREAM_API, ...): its bearer token and the fields of
\* its JSON body the handlers set
Outbound(tok, model, stream, size) ==
  [url |-> UPSTREAM_API, token |-> tok, model |-> model, stream |-> stream, size |-> size]

----------------------------------------------------------------------------
(* The program *)

Init ==
  /\ modelMapping = <<>>
  /\ reverseModelMapping = <<>>
  /\ pc = "boot"
  /\ req = NoRequest
  /\ token = <<>>
  /\ upstreamReqs = <<>>
  /\ upstreamResp = NoUpstream
  /\ upArrived = 0
  /\ upRead = 0
  /\ upEnd = "open"
  /\ response = NoResponse
  /\ threw = FALSE
  /\ streamState = "none"
  /\ delivered = <<>>

mappingVars == <<modelMapping, reverseModelMapping>>
bodyVars == <<upArrived, upRead, upEnd>>
streamVars == <<streamState, delivered>>

\* await loadModelMapping(), before serve()
LoadModelMapping ==
  /\ pc = "boot"
  /\ \E file \in ModelFiles :
       /\ modelMapping' = LoadedMapping(file)
       /\ reverseModelMapping' = LoadedReverse(file)
  /\ pc' = "idle"
  /\ UNCHANGED <<req, token, upstreamReqs, upstreamResp, bodyVars, response, threw,
                 streamVars>>

\* serve() calls handle(req)
Receive ==
  /\ pc = "idle"
  /\ \E r \in Requests : req' = r
  /\ pc' = "handle"
  /\ UNCHANGED <<mappingVars, token, upstreamReqs, upstreamResp, bodyVars, response,
                 threw, streamVars>>

\* handle() resolves with r
Return(r) ==
  /\ response' = r
  /\ threw' = FALSE
  /\ pc' = "done"

\* handle() rejects
Throw ==
  /\ response' = NoResponse
  /\ threw' = TRUE
  /\ pc' = "done"

IsChat == req.method = "POST" /\ req.path = ChatPath
IsImages == req.method = "POST" /\ req.path = ImagesPath
IsModels == req.method = "GET" /\ req.path = ModelsPath

\* auth.slice(7).trim()
BearerToken(auth) == Trim(Slice(auth.value, 7))

\* both handlers' else branch of the Authorization check
Unauthorized ==
  Response(401, JsonHeaders, ErrorBody("Missing Bearer token"))

(* POST /v1/chat/completions *)

ChatUnauthorized ==
  /\ pc = "handle" /\ IsChat
  /\ ~HasBearer(req.auth)
  /\ Return(Unauthorized)
  /\ UNCHANGED <<mappingVars, req, token, upstreamReqs, upstreamResp, bodyVars, streamVars>>

\* await req.json() rejects
ChatJsonFails ==
  /\ pc = "handle" /\ IsChat
  /\ HasBearer(req.auth)
  /\ ~req.bodyOk
  /\ token' = BearerToken(req.auth)
  /\ Throw
  /\ UNCHANGED <<mappingVars, req, upstreamReqs, upstreamResp, bodyVars, streamVars>>

\* reqBody.model after step 3
ChatModel(model) == IF Truthy(model) THEN mapModelName(model) ELSE model

\* the body is parsed, the model mapped and fetch() called
ChatFetch ==
  /\ pc = "handle" /\ IsChat
  /\ HasBearer(req.auth)
  /\ req.bodyOk
  /\ token' = BearerToken(req.auth)
  /\ upstreamReqs' = Append(upstreamReqs,
       Outbound(token', Stringify(ChatModel(req.model)), req.stream, Undefined))
  /\ pc' = "chat_fetch"
  /\ UNCHANGED <<mappingVars, req, upstreamResp, bodyVars, response, threw, streamVars>>

\* fetch() rejects: connection error or timeout
ChatFetchFails ==
  /\ pc = "chat_fetch"
  /\ Throw
  /\ UNCHANGED <<mappingVars, req, token, upstreamReqs, upstreamResp, bodyVars, streamVars>>

\* fetch() resolves with the upstream's response; u's body starts to arrive
Resolve(u) ==
  /\ upstreamResp' = u
  /\ upArrived' = 0
  /\ upRead' = 0
  /\ upEnd' = IF NullBodyStatus(u.status) THEN "eof" ELSE "open"

ChatFetchResolves ==
  /\ pc = "chat_fetch"
  /\ \E u \in ChatUpstreams : Resolve(u)
  /\ pc' = "chat_resp"
  /\ UNCHANGED <<mappingVars, req, token, upstreamReqs, response, threw, streamVars>>

\* const stream = reqBody.stream === true
Streaming == req.stream = "true"

\* the status the streaming branch answers with
StreamStatus(upstreamStatus) == 200

\* the streaming branch: the ReadableStream is built, start() runs up to its
\* first await (getReader() of a null body throws) and the Response is returned
ChatStream ==
  /\ pc = "chat_resp"
  /\ Streaming
  /\ response' = Response(StreamStatus(upstreamResp.status), SseHeaders, StreamBody)
  /\ threw' = FALSE
  /\ delivered' = <<>>
  /\ IF NullBodyStatus(upstreamResp.status)
       THEN streamState' = "errored" /\ pc' = "done"
       ELSE streamState' = "readable" /\ pc' = "streaming"
  /\ UNCHANGED <<mappingVars, req, token, upstreamReqs, upstreamResp, bodyVars>>

\* a queue that hands out its newest chunk first
EnqueueFront(queue, value) == <<value>> \o queue

\* controller.enqueue(value) on the queue of chunks
Enqueue(queue, value) == Append(queue, value)

\* reader.read() yields a chunk, a Uint8Array and so truthy:
\* if (value) controller.enqueue(value)
StreamRead ==
  /\ pc = "streaming"
  /\ upEnd # "error"
  /\ upRead < upArrived
  /\ upRead' = upRead + 1
  /\ delivered' = Enqueue(delivered, upstreamResp.chunks[upRead + 1])
  /\ UNCHANGED <<mappingVars, pc, req, token, upstreamReqs, upstreamResp, upArrived, upEnd,
                 response, threw, streamState>>

\* reader.read() yields done: break; controller.close()
StreamDone ==
  /\ pc = "streaming"
  /\ upEnd = "eof"
  /\ upRead = upArrived
  /\ streamState' = "closed"
  /\ pc' = "done"
  /\ UNCHANGED <<mappingVars, req, token, upstreamReqs, upstreamResp, bodyVars, response,
                 threw, delivered>>

\* reader.read() rejects: start() rejects and the stream is errored
StreamFails ==
  /\ pc = "streaming"
  /\ upEnd = "error"
  /\ streamState' = "errored"
  /\ pc' = "done"
  /\ UNCHANGED <<mappingVars, req, token, upstreamReqs, upstreamResp, bodyVars, response,
                 threw, delivered>>

\* the bytes await upstreamResp.text() collects
BodyBytes(u) == Flatten(u.chunks)

\* the status the buffered branch answers with
BufferedStatus(upstreamStatus) == upstreamStatus

\* the buffered branch: text() resolves at the end of the body; new Response
\* throws for a body with a null body status
ChatBuffered ==
  /\ pc = "chat_resp"
  /\ ~Streaming
  /\ upEnd = "eof"
  /\ IF NullBodyStatus(upstreamResp.status)
       THEN Throw
       ELSE Return(Response(BufferedStatus(upstreamResp.status), JsonCorsHeaders,
                            TextBody(ReencodedText(BodyBytes(upstreamResp)))))
  /\ UNCHANGED <<mappingVars, req, token, upstreamReqs, upstreamResp, bodyVars, streamVars>>

\* text() rejects: the body broke off
ChatBufferedFails ==
  /\ pc = "chat_resp"
  /\ ~Streaming
  /\ upEnd = "error"
  /\ Throw
  /\ UNCHANGED <<mappingVars, req, token, upstreamReqs, upstreamResp, bodyVars, streamVars>>

(* the upstream's body *)

Receiving == pc \in {"chat_resp", "streaming", "img_resp"}

UpstreamChunk ==
  /\ Receiving
  /\ upEnd = "open"
  /\ upArrived < Len(upstreamResp.chunks)
  /\ upArrived' = upArrived + 1
  /\ UNCHANGED <<mappingVars, pc, req, token, upstreamReqs, upstreamResp, upRead, upEnd,
                 response, threw, streamVars>>

UpstreamEnd ==
  /\ Receiving
  /\ upEnd = "open"
  /\ upArrived = Len(upstreamResp.chunks)
  /\ upEnd' = "eof"
  /\ UNCHANGED <<mappingVars, pc, req, token, upstreamReqs, upstreamResp, upArrived, upRead,
                 response, threw, streamVars>>

UpstreamBreaks ==
  /\ Receiving
  /\ upEnd = "open"
  /\ upEnd' = "error"
  /\ UNCHANGED <<mappingVars, pc, req, token, upstreamReqs, upstreamResp, upArrived, upRead,
                 response, threw, streamVars>>

(* POST /v1/images/generations *)

ImageUnauthorized ==
  /\ pc = "handle" /\ IsImages
  /\ ~HasBearer(req.auth)
  /\ Return(Unauthorized)
  /\ UNCHANGED <<mappingVars, req, token, upstreamReqs, upstreamResp, bodyVars, streamVars>>

\* await req.json() rejects
ImageJsonFails ==
  /\ pc = "handle" /\ IsImages
  /\ HasBearer(req.auth)
  /\ ~req.bodyOk
  /\ token' = BearerToken(req.auth)
  /\ Throw
  /\ UNCHANGED <<mappingVars, req, upstreamReqs, upstreamResp, bodyVars, streamVars>>

\* reqBody.model === "dall-e-3" || mapModelName("dall-e-3") === reqBody.model
IsDallE3(model) == model = "dall-e-3" \/ mapModelName("dall-e-3") = model

\* the chatRequest of convertDallE3Request, sent with the caller's token
convertDallE3Request(tok, size) ==
  Outbound(tok, mapModelName("dall-e-3"), Undefined, OrElse(size, "1024x1024"))

ImageUnsupportedModel ==
  /\ pc = "handle" /\ IsImages
  /\ HasBearer(req.auth)
  /\ req.bodyOk
  /\ ~IsDallE3(req.model)
  /\ token' = BearerToken(req.auth)
  /\ Return(Response(400, JsonHeaders,
                     ErrorBody("Only dall-e-3 model is supported for image generation")))
  /\ UNCHANGED <<mappingVars, req, upstreamReqs, upstreamResp, bodyVars, streamVars>>

\* the request is converted and fetch() called
ImageFetch ==
  /\ pc = "handle" /\ IsImages
  /\ HasBearer(req.auth)
  /\ req.bodyOk
  /\ IsDallE3(req.model)
  /\ token' = BearerToken(req.auth)
  /\ upstreamReqs' = Append(upstreamReqs, convertDallE3Request(token', req.size))
  /\ pc' = "img_fetch"
  /\ UNCHANGED <<mappingVars, req, upstreamResp, bodyVars, response, threw, streamVars>>

\* fetch() rejects: connection error or timeout
ImageFetchFails ==
  /\ pc = "img_fetch"
  /\ Throw
  /\ UNCHANGED <<mappingVars, req, token, upstreamReqs, upstreamResp, bodyVars, streamVars>>

ImageFetchResolves ==
  /\ pc = "img_fetch"
  /\ \E u \in ImageUpstreams : Resolve(u)
  /\ pc' = "img_resp"
  /\ UNCHANGED <<mappingVars, req, token, upstreamReqs, response, threw, streamVars>>

\* if (!upstreamResp.ok): the upstream's text and status are returned
ImageUpstreamError ==
  /\ pc = "img_resp"
  /\ ~Ok(upstreamResp.status)
  /\ upEnd = "eof"
  /\ IF NullBodyStatus(upstreamResp.status)
       THEN Throw
       ELSE Return(Response(upstreamResp.status, JsonHeaders,
                            TextBody(ReencodedText(BodyBytes(upstreamResp)))))
  /\ UNCHANGED <<mappingVars, req, token, upstreamReqs, upstreamResp, bodyVars, streamVars>>

\* the data[0].url of convertDallE3Response(chatResponse)
convertDallE3Response(chatResponse) == imageUrl(chatResponse.content)

\* upstreamResp.json() resolves and the response is converted, or it rejects
ImageSuccess ==
  /\ pc = "img_resp"
  /\ Ok(upstreamResp.status)
  /\ upEnd = "eof"
  /\ IF upstreamResp.json.ok
       THEN Return(Response(200, JsonCorsHeaders,
                            ImageBody(convertDallE3Response(upstreamResp.json))))
       ELSE Throw
  /\ UNCHANGED <<mappingVars, req, token, upstreamReqs, upstreamResp, bodyVars, streamVars>>

\* text() or json() rejects: the body broke off
ImageBodyFails ==
  /\ pc = "img_resp"
  /\ upEnd = "error"
  /\ Throw
  /\ UNCHANGED <<mappingVars, req, token, upstreamReqs, upstreamResp, bodyVars, streamVars>>

(* GET /v1/models and the fallback *)

\* [...new Set(models)]: the first occurrence of each element, in order
RECURSIVE Unique(_, _)
Unique(models, seen) ==
  IF models = <<>> THEN <<>>
  ELSE IF Head(models) \in seen THEN Unique(Tail(models), seen)
  ELSE <<Head(models)>> \o Unique(Tail(models), seen \cup {Head(models)})

\* the ids of modelList.data
uniqueModels == Unique(Keys(modelMapping) \o Keys(reverseModelMapping), {})

ListModels ==
  /\ pc = "handle" /\ IsModels
  /\ Return(Response(200, JsonCorsHeaders, ModelsBody(uniqueModels)))
  /\ UNCHANGED <<mappingVars, req, token, upstreamReqs, upstreamResp, bodyVars, streamVars>>

Fallback ==
  /\ pc = "handle"
  /\ ~IsChat /\ ~IsImages /\ ~IsModels
  /\ Return(Response(200, JsonHeaders, InfoBody))
  /\ UNCHANGED <<mappingVars, req, token, upstreamReqs, upstreamResp, bodyVars, streamVars>>

\* the request is over; the server waits for the next one
Finish ==
  /\ pc = "done"
  /\ pc' = "idle"
  /\ req' = NoRequest
  /\ token' = <<>>
  /\ upstreamReqs' = <<>>
  /\ upstreamResp' = NoUpstream
  /\ upArrived' = 0
  /\ upRead' = 0
  /\ upEnd' = "open"
  /\ response' = NoResponse
  /\ threw' = FALSE
  /\ streamState' = "none"
  /\ delivered' = <<>>
  /\ UNCHANGED mappingVars

Next ==
  \/ LoadModelMapping
  \/ Receive
  \/ ChatUnauthorized
  \/ ChatJsonFails
  \/ ChatFetch
  \/ ChatFetchFails
  \/ ChatFetchResolves
  \/ ChatStream
  \/ StreamRead
  \/ StreamDone
  \/ StreamFails
  \/ ChatBuffered
  \/ ChatBufferedFails
  \/ UpstreamChunk
  \/ UpstreamEnd
  \/ UpstreamBreaks
  \/ ImageUnauthorized
  \/ ImageJsonFails
  \/ ImageUnsupportedModel
  \/ ImageFetch
  \/ ImageFetchFails
  \/ ImageFetchResolves
  \/ ImageUpstreamError
  \/ ImageSuccess
  \/ ImageBodyFails
  \/ ListModels
  \/ Fallback
  \/ Finish

Spec == Init /\ [][Next]_vars

\* The forwarding loop of the streaming branch is a chain of promise
\* reactions: the event loop runs each one that is ready.
FairSpec == Spec /\ WF_vars(StreamRead) /\ WF_vars(StreamDone) /\ WF_vars(StreamFails)

----------------------------------------------------------------------------
(* Properties *)

Handling == pc \notin {"boot", "idle"}

\* the request carried a bearer token and its body parsed
Authenticated == req.auth.present /\ StartsWith(req.auth.value, BEARER) /\ req.bodyOk

Cors(r) ==
  /\ "access-control-allow-origin" \in DOMAIN r.headers
  /\ r.headers["access-control-allow-origin"] = "*"

\* C1: a POST to /v1/chat/completions or /v1/images/generations whose
\* Authorization header is absent or does not start with "Bearer " is answered
\* 401 with error.message "Missing Bearer token", and no request to the
\* upstream is issued for it.
C1_MissingBearer ==
  (Handling /\ (IsChat \/ IsImages)
     /\ (~req.auth.present \/ ~StartsWith(req.auth.value, BEARER)))
  => /\ upstreamReqs = <<>>
     /\ pc \in {"handle", "done"}
     /\ pc = "done" =>
          /\ ~threw
          /\ response.status = 401
          /\ response.body.kind = "error"
          /\ response.body.message = "Missing Bearer token"

\* C1's case: a header of another scheme was answered 401
C1_Witness ==
  /\ pc = "done" /\ IsImages
  /\ req.auth.present /\ ~StartsWith(req.auth.value, BEARER)
  /\ response.status = 401

\* C2: resolving a name that is a key of the loaded mapping yields the mapped
\* value; resolving a name that is only a value of the mapping, or neither a
\* key nor a value, yields the name unchanged.  Stated of the model name the
\* chat handler has resolved and sent.
C2_Resolve ==
  (pc = "chat_fetch" /\ Truthy(req.model))
  => LET sent == upstreamReqs[Len(upstreamReqs)].model
     IN IF HasOwn(modelMapping, req.model)
          THEN sent = modelMapping[CHOOSE i \in 1..Len(modelMapping) :
                                     modelMapping[i][1] = req.model][2]
          ELSE sent = req.model

\* C3: an authenticated chat request whose stream is not true is answered
\* with the upstream's status and a body identical to the upstream's body,
\* whatever the upstream's status.
C3_BufferedPassThrough ==
  (pc = "done" /\ IsChat /\ Authenticated /\ ~(req.stream = "true")
     /\ upstreamResp.status # 0 /\ upEnd = "eof")
  => /\ ~threw
     /\ response.status = upstreamResp.status
     /\ response.body.bytes = Flatten(upstreamResp.chunks)

\* the chunks the upstream's body has produced so far
Produced == SubSeq(upstreamResp.chunks, 1, upArrived)

\* C4: for an authenticated chat request with stream true, the chunks
\* delivered to the client are the chunks the upstream's body produced, in
\* order, none dropped or duplicated; once the upstream has signalled
\* end-of-data the forwarding loop ends and the client-facing stream is closed.
C4_StreamForwarding ==
  /\ [](streamState \in {"readable", "closed"} =>
          /\ Len(delivered) <= Len(Produced)
          /\ delivered = SubSeq(Produced, 1, Len(delivered))
          /\ streamState = "closed" => delivered = Produced /\ upEnd = "eof")
  /\ ((pc = "streaming" /\ upEnd = "eof") ~> (streamState = "closed" /\ pc = "done"))

\* C4's case: two different chunks went through and the stream was closed
C4_Witness ==
  /\ streamState = "closed"
  /\ Len(delivered) = 2
  /\ delivered[1] # delivered[2]
  /\ delivered = upstreamResp.chunks

\* C5: for an authenticated chat request with stream true, the status of the
\* response equals the upstream's status, non-2xx statuses included.
C5_StreamStatus ==
  (IsChat /\ Authenticated /\ req.stream = "true" /\ response.body.kind = "stream")
  => response.status = upstreamResp.status

\* C6: an authenticated image request whose size is present and is not
\* "1024x1024" is answered with an error, and no request to the upstream is
\* issued for it.
C6_InvalidSize ==
  (Handling /\ IsImages /\ Authenticated /\ req.size \notin {Undefined, "1024x1024"})
  => /\ upstreamReqs = <<>>
     /\ pc = "done" => (~threw /\ response.status >= 400 /\ response.body.kind = "error")

\* C7: when the call to the upstream fails at the network level, the handler
\* completes with 408 and {error: {message: "Network error or timeout", type:
\* "timeout_error"}}; the failure does not escape the handler.
C7_NetworkFailure ==
  (pc = "done" /\ upstreamReqs # <<>> /\ upstreamResp.status = 0)
  => /\ ~threw
     /\ response.status = 408
     /\ response.body.kind = "error"
     /\ response.body.message = "Network error or timeout"
     /\ response.body.type = "timeout_error"

\* C8: whatever the mapping, the empty one included, the ids GET /v1/models
\* lists are "dall-e-3" and the keys of the forward and of the reverse
\* mapping, each once.
C8_ModelList ==
  (pc = "done" /\ IsModels)
  => LET ids == response.body.ids
     IN /\ response.body.kind = "models"
        /\ "dall-e-3" \in Range(ids)
        /\ Range(ids) = Range(Keys(modelMapping)) \cup Range(Keys(reverseModelMapping))
                          \cup {"dall-e-3"}
        /\ \A i, j \in 1..Len(ids) : ids[i] = ids[j] => i = j

\* C9: when the upstream content holds a Markdown image tag, the url returned
\* is the URL the tag captures, other bare URLs before or after it
\* notwithstanding; when it holds none, the url is the last bare URL.
C9_ImageUrl ==
  (pc = "done" /\ IsImages /\ response.body.kind = "image")
  => LET content == upstreamResp.json.content
         bare == urlMatches(content)
     IN IF markdownMatch(content) # <<>>
          THEN response.body.url = markdownMatch(content)[1]
          ELSE bare # <<>> => response.body.url = bare[Len(bare)]

\* C10: every response with a JSON body carries
\* Access-Control-Allow-Origin: *.
C10_Cors ==
  (pc = "done" /\ ~threw /\ "content-type" \in DOMAIN response.headers
     /\ response.headers["content-type"] = "application/json")
  => Cors(response)

====
